---- MODULE Spec2Model ----
(***************************************************************************)
(* CME-Monitor: a model of the contract-catalog aggregation, the market-   *)
(* state classification, the refresh cycle and the watch registry of       *)
(* cme_monitor_app.py and Getcmesymbols.py.                                *)
(*                                                                         *)
(* The module holds several specifications over one set of variables; each *)
(* pins the variables of the parts it does not exercise:                   *)
(*   SpecMerge     merge_contract_lists as a function of two lists         *)
(*   SpecCatalog   authenticate + Strategy A + Strategy B + merge          *)
(*   SpecClassify  determine_market_state as called from update_data       *)
(*   SpecRefresh   update_data's background cycle                          *)
(*   SpecRegistry  configuration, symbol-manager dialog, app handlers      *)
(*   SpecCycle     refresh cycles one at a time                            *)
(*   SpecClient    the API client call by call                             *)
(*   SpecIndicators calculate_indicators on sample bar frames              *)
(*   SpecAuto      auto-refresh started and stopped                        *)
(*   SpecReconnect a second connect of the connected application           *)
(***************************************************************************)
EXTENDS Integers, Sequences, FiniteSets, TLC

VARIABLES
    \* ---- merge_contract_lists exercised alone
    list1, list2, merged, mpc,
    \* ---- catalog aggregation (connect_thread / Getcmesymbols.main)
    impl,                 \* "app" = cme_monitor_app.TopstepXAPI, "tool" = Getcmesymbols.TopstepXClient
    cpc,                  \* position of the aggregating thread
    session_token,        \* "" while no token is held
    contracts_method1,    \* Strategy A result
    cat_idx, prefix_idx,  \* the category / prefix whose search comes next
    category_contracts,   \* filtered results of the category being searched
    contracts_by_category,\* one list per finished category, in table order
    all_contracts,        \* the merged catalog
    prefix_failed,        \* history: some category-prefix search has failed
    filter_rejected,      \* history: the prefix filter has dropped a returned contract
    \* ---- classification
    chaikin_vol, roc, market_state, clpc,
    \* ---- configuration and watch registry
    file, config, default_config, config_aliased,
    disk,                 \* "ok", or "readonly": every write of config.json fails
    watched_symbols, timeframe, debug_mode,
    dialog, last_op, saved,
    \* ---- refresh cycle
    contracts, threads, tree, bar_service,
    \* ---- calculate_indicators exercised alone
    df,                   \* the bar frame handed in: [columns, rows]
    indicators,           \* what the call produced: the sorted rows and the new columns
    ipc,
    \* ---- TopstepXAPI exercised call by call
    call,                 \* the last call: [fn, outcome, request, raised, result, ...]
    \* ---- auto-refresh
    auto_update_running,  \* the flag start_auto_update sets and stop_auto_update clears
    loops                 \* the auto_update_loop threads started so far, each with its position

mergeVars    == <<list1, list2, merged, mpc>>
catalogVars  == <<impl, cpc, session_token, contracts_method1, cat_idx, prefix_idx,
                  category_contracts, contracts_by_category, all_contracts,
                  prefix_failed, filter_rejected>>
classifyVars == <<chaikin_vol, roc, market_state, clpc>>
configVars   == <<file, config, default_config, config_aliased, disk>>
appVars      == <<watched_symbols, timeframe, debug_mode>>
dialogVars   == <<dialog, last_op, saved>>
refreshVars  == <<contracts, threads, tree, bar_service>>
unitVars     == <<df, indicators, ipc, call>>
autoVars     == <<auto_update_running, loops>>

vars == <<mergeVars, catalogVars, classifyVars, configVars, appVars, dialogVars, refreshVars,
          unitVars, autoVars>>

(***************************************************************************)
(* Bounds of the model.                                                    *)
(***************************************************************************)
MaxLen == 2        \* longest list handed to merge_contract_lists in SpecMerge
MaxResp == 2       \* most contracts in one search response
CvMax == 13        \* chaikin_vol ranges over -CvMax..CvMax (and NaN)
RocMax == 5        \* roc ranges over -RocMax..RocMax (and NaN)
MaxThreads == 2    \* most update threads alive at once
MaxRefreshes == 1  \* most update threads alive at once in SpecRegistry
MaxWatched == 2    \* longest watch list the dialog builds
MaxLoops == 2      \* most auto_update_loop threads started in one run

(***************************************************************************)
(* Sequence helpers.                                                       *)
(***************************************************************************)
Range(s) == {s[i] : i \in 1..Len(s)}

SeqsUpTo(S, n) == UNION {[1..k -> S] : k \in 0..n}

RECURSIVE Concat(_)
Concat(ss) == IF ss = <<>> THEN <<>> ELSE Head(ss) \o Concat(Tail(ss))

\* the sub-lists of s (order kept) with at most n entries
SubLists(s, n) ==
    {t \in SeqsUpTo(Range(s), n) :
        \E f \in [1..Len(t) -> 1..Len(s)] :
            /\ \A i \in 1..Len(t) : t[i] = s[f[i]]
            /\ \A i, j \in 1..Len(t) : i < j => f[i] < f[j]}

\* str.startswith
StartsWith(s, p) == Len(s) >= Len(p) /\ SubSeq(s, 1, Len(p)) = p

(***************************************************************************)
(* Contracts.  A contract is a dict; c.get('id') is "" when the key is     *)
(* missing or empty (both falsy in Python), c.get('name', '') likewise.    *)
(***************************************************************************)
Ids == {"", "c1", "c2"}
Names == {"ESZ5", "MGCZ5"}
SampleContracts == [id : Ids, name : Names]

IdsOf(l) == {l[i].id : i \in 1..Len(l)}
PresentIdsOf(l) == IdsOf(l) \ {""}

\* no two entries of l share a (present) id
NoDuplicateIds(l) ==
    \A i, j \in 1..Len(l) : (i # j /\ l[i].id # "") => l[i].id # l[j].id

(***************************************************************************)
(* merge_contract_lists / TopstepXAPI._merge_contract_lists                *)
(***************************************************************************)
\* mutant: the loop appends every entry of list2, no id check
MergeLoop_NoIdCheck(acc, existing_ids, rest) == acc \o rest

\* mutant: the loop never records the ids it appends
RECURSIVE MergeLoop_NoAdd(_, _, _)
MergeLoop_NoAdd(acc, existing_ids, rest) ==
    IF rest = <<>> THEN acc
    ELSE IF Head(rest).id # "" /\ Head(rest).id \notin existing_ids
         THEN MergeLoop_NoAdd(Append(acc, Head(rest)), existing_ids, Tail(rest))
         ELSE MergeLoop_NoAdd(acc, existing_ids, Tail(rest))

\* for contract in list2: append it if its id is present and not seen yet
RECURSIVE MergeLoop(_, _, _)
MergeLoop(acc, existing_ids, rest) ==
    IF rest = <<>> THEN acc
    ELSE LET contract == Head(rest)
             contract_id == contract.id
         IN  IF contract_id # "" /\ contract_id \notin existing_ids
             THEN MergeLoop(Append(acc, contract), existing_ids \cup {contract_id}, Tail(rest))
             ELSE MergeLoop(acc, existing_ids, Tail(rest))

merge_contract_lists(l1, l2) ==
    IF l1 = <<>> THEN l2
    ELSE IF l2 = <<>> THEN l1
    ELSE MergeLoop(l1, IdsOf(l1), l2)

(***************************************************************************)
(* The curated category -> prefix table of get_contracts_by_category, in   *)
(* the dict's insertion order.  Category names are transliterated:         *)
(* equity_index = 株価指数, currency = 通貨, energy = エネルギー,             *)
(* metals = 貴金属, agriculture = 農産物, livestock = 畜産, rates = 債券,      *)
(* crypto = 仮想通貨, volatility = ボラティリティ, other = その他.             *)
(***************************************************************************)
categories == <<
    [name |-> "equity_index",
     prefixes |-> <<"ES", "NQ", "YM", "RTY", "NKD", "NIY", "MES", "MNQ", "M2K", "MYM", "EMD", "SSG">>],
    [name |-> "currency",
     prefixes |-> <<"EC", "6E", "6J", "6B", "6C", "6A", "6S", "6N", "6M",
                    "DX", "E7", "J7", "AUD", "CAD", "CHF", "EUR", "GBP", "JPY", "NZD">>],
    [name |-> "energy",
     prefixes |-> <<"CL", "NG", "RB", "HO", "BZ", "QG", "QM", "MCL", "MGC">>],
    [name |-> "metals",
     prefixes |-> <<"GC", "SI", "HG", "PL", "PA", "QO", "QI", "MGC", "SIL">>],
    [name |-> "agriculture",
     prefixes |-> <<"ZC", "ZS", "ZW", "ZL", "ZM", "ZO", "ZR", "CT", "KC", "SB", "CC", "OJ", "DC", "DY">>],
    [name |-> "livestock", prefixes |-> <<"LE", "HE", "GF", "DC">>],
    [name |-> "rates", prefixes |-> <<"ZB", "ZN", "ZF", "ZT", "UB", "TWE", "FV">>],
    [name |-> "crypto", prefixes |-> <<"BTC", "ETH", "MBT", "MET">>],
    [name |-> "volatility", prefixes |-> <<"VX", "VXM">>],
    [name |-> "other", prefixes |-> <<"BRN", "LBS">>] >>

(***************************************************************************)
(* The brokerage service, an opaque collaborator: what it holds, and what  *)
(* one search call can answer.  A response is any sub-list of the          *)
(* service's catalog whatever the query was, an HTTP error status, or a    *)
(* network exception (timeout, connection error).                          *)
(***************************************************************************)
ServerCatalog == <<
    [id |-> "c1", name |-> "MGCZ5"],
    [id |-> "c2", name |-> "ESZ5"],
    [id |-> "c3", name |-> "VXMZ5"],
    [id |-> "",   name |-> "NQZ5"] >>

Responses == SubLists(ServerCatalog, MaxResp)

SearchOutcomes ==
    [kind : {"ok"}, contracts : Responses]
        \cup {[kind |-> "http_error", contracts |-> <<>>],
              [kind |-> "exception", contracts |-> <<>>]}

AuthOutcomes == {"success", "rejected", "http_error", "exception"}

(***************************************************************************)
(* authenticate.  TopstepXAPI (app) posts without try/except and reads the *)
(* JSON body whatever the status; TopstepXClient (tool) checks the status  *)
(* and catches every exception.  Result: [raised, ok, token].              *)
(***************************************************************************)
authenticate(im, outcome) ==
    IF outcome = "success"
    THEN [raised |-> FALSE, ok |-> TRUE, token |-> "tok"]
    ELSE IF outcome = "exception" /\ im = "app"
    THEN [raised |-> TRUE, ok |-> FALSE, token |-> ""]
    ELSE [raised |-> FALSE, ok |-> FALSE, token |-> ""]

(***************************************************************************)
(* search_contracts.  Result: [raised, none, contracts]; none = the call   *)
(* returned None.  TopstepXAPI.search_contracts has no try/except, so a    *)
(* network exception propagates to the caller; TopstepXClient's catches it *)
(* and returns None.                                                       *)
(***************************************************************************)
search_contracts(im, token, outcome) ==
    IF token = ""
    THEN [raised |-> FALSE, none |-> TRUE, contracts |-> <<>>]
    ELSE IF outcome.kind = "ok"
    THEN [raised |-> FALSE, none |-> FALSE, contracts |-> outcome.contracts]
    ELSE IF outcome.kind = "http_error"
    THEN [raised |-> FALSE, none |-> TRUE, contracts |-> <<>>]
    ELSE IF im = "tool"
    THEN [raised |-> FALSE, none |-> TRUE, contracts |-> <<>>]
    ELSE [raised |-> TRUE, none |-> TRUE, contracts |-> <<>>]

(***************************************************************************)
(* get_contracts_by_category: the prefix filter and the per-category dedup *)
(***************************************************************************)
\* mutant: the filter keeps everything the search returned
PrefixFilter_KeepAll(cs, prefix) == cs

\* [c for c in contracts if c.get('name', '').startswith(prefix)]
PrefixFilter(cs, prefix) == SelectSeq(cs, LAMBDA c : StartsWith(c.name, prefix))

RECURSIVE UniqueLoop(_, _, _)
UniqueLoop(unique_contracts, seen_ids, rest) ==
    IF rest = <<>> THEN unique_contracts
    ELSE LET contract_id == Head(rest).id
         IN  IF contract_id # "" /\ contract_id \notin seen_ids
             THEN UniqueLoop(Append(unique_contracts, Head(rest)),
                             seen_ids \cup {contract_id}, Tail(rest))
             ELSE UniqueLoop(unique_contracts, seen_ids, Tail(rest))

\* mutant: the category keeps everything the filter let through
UniqueContracts_KeepAll(cs) == cs

UniqueContracts(cs) == UniqueLoop(<<>>, {}, cs)

(***************************************************************************)
(* Ordered dict self.contracts: a sequence of [symbol, contract].          *)
(***************************************************************************)
DictKeys(d) == {d[i].symbol : i \in 1..Len(d)}

DictPut(d, k, v) ==
    IF k \in DictKeys(d)
    THEN [i \in 1..Len(d) |-> IF d[i].symbol = k THEN [symbol |-> k, contract |-> v] ELSE d[i]]
    ELSE Append(d, [symbol |-> k, contract |-> v])

\* the first contract of the catalog whose name equals symbol (for ... break)
HasContract(catalog, symbol) == \E i \in 1..Len(catalog) : catalog[i].name = symbol
FirstContract(catalog, symbol) ==
    catalog[CHOOSE i \in 1..Len(catalog) :
                /\ catalog[i].name = symbol
                /\ \A j \in 1..(i - 1) : catalog[j].name # symbol]

\* for symbol_prefix in watched: for contract in all_contracts: if name == symbol: put; break
RECURSIVE ResolveContracts(_, _, _)
ResolveContracts(d, watched, catalog) ==
    IF watched = <<>> THEN d
    ELSE ResolveContracts(
            IF HasContract(catalog, Head(watched))
            THEN DictPut(d, Head(watched), FirstContract(catalog, Head(watched)))
            ELSE d,
            Tail(watched), catalog)

(***************************************************************************)
(* ConfigManager.  A configuration is a record keyed by the JSON keys; the *)
(* file is absent, unreadable (not JSON), or holds a record that may lack  *)
(* recognized keys and may carry extra ones.                               *)
(***************************************************************************)
DefaultConfig ==
    [watched_symbols |-> <<"ESZ5", "NQZ5", "GCZ5", "CLZ5">>,
     timeframe |-> "15m",
     auto_update_interval |-> 60,
     debug_mode |-> FALSE,
     squeeze_threshold |-> -10,
     trend_threshold |-> 10,
     roc_squeeze_threshold |-> 2,
     roc_trend_threshold |-> 3]

NoData == [k \in {} |-> 0]

\* for key, value in default_config.items(): if key not in config: config[key] = value
FillDefaults(data, dflt) ==
    [k \in (DOMAIN data) \cup (DOMAIN dflt) |-> IF k \in DOMAIN data THEN data[k] ELSE dflt[k]]

load_config(f, dflt) ==
    IF f.status = "ok" THEN FillDefaults(f.data, dflt) ELSE dflt

\* load_config hands out default_config itself when the file is absent or unreadable
LoadAliased(f) == f.status # "ok"

(***************************************************************************)
(* Values of the variables of the parts a specification leaves out.        *)
(***************************************************************************)
MergeIdle == list1 = <<>> /\ list2 = <<>> /\ merged = <<>> /\ mpc = "off"

CatalogIdle ==
    /\ impl = "app" /\ cpc = "off" /\ session_token = ""
    /\ contracts_method1 = <<>> /\ cat_idx = 1 /\ prefix_idx = 1
    /\ category_contracts = <<>> /\ contracts_by_category = <<>>
    /\ all_contracts = <<>>
    /\ prefix_failed = FALSE /\ filter_rejected = FALSE

ClassifyIdle == chaikin_vol = 0 /\ roc = 0 /\ market_state = <<"", "">> /\ clpc = "off"

ConfigIdle ==
    /\ file = [status |-> "absent", data |-> NoData]
    /\ config = DefaultConfig /\ default_config = DefaultConfig
    /\ config_aliased = TRUE
    /\ disk = "ok"

AppIdle ==
    /\ watched_symbols = DefaultConfig.watched_symbols
    /\ timeframe = DefaultConfig.timeframe
    /\ debug_mode = DefaultConfig.debug_mode

DialogIdle ==
    /\ dialog = [open |-> FALSE, watched_symbols |-> <<>>]
    /\ last_op = [op |-> "none", result |-> ""]
    /\ saved = FALSE

RefreshIdle ==
    /\ contracts = <<>>
    /\ threads = [t \in 1..MaxThreads |-> [pc |-> "free", pos |-> 0, used |-> 0, due |-> <<>>]]
    /\ tree = <<>>
    /\ bar_service = "off"

NoCall == [fn |-> "none", outcome |-> "", request |-> <<>>, raised |-> FALSE, result |-> <<>>,
           answered |-> TRUE, returned |-> TRUE]

NoFrame == [columns |-> {}, rows |-> <<>>]

NoIndicators ==
    [raised |-> FALSE, order |-> <<>>, rows |-> <<>>, ema_hl |-> <<>>,
     chaikin_vol |-> <<>>, roc |-> <<>>]

AutoIdle == auto_update_running = FALSE /\ loops = <<>>

UnitIdle ==
    /\ df = NoFrame
    /\ indicators = NoIndicators
    /\ ipc = "off"
    /\ call = NoCall

(***************************************************************************)
(* SpecMerge: merge_contract_lists applied to every pair of short lists.   *)
(***************************************************************************)
InitMerge ==
    /\ list1 \in SeqsUpTo(SampleContracts, MaxLen)
    /\ list2 \in SeqsUpTo(SampleContracts, MaxLen)
    /\ merged = <<>> /\ mpc = "ready"
    /\ CatalogIdle /\ ClassifyIdle /\ ConfigIdle /\ AppIdle /\ DialogIdle /\ RefreshIdle
    /\ UnitIdle /\ AutoIdle

Merge ==
    /\ mpc = "ready"
    /\ merged' = merge_contract_lists(list1, list2)
    /\ mpc' = "done"
    /\ UNCHANGED <<list1, list2, catalogVars, unitVars, autoVars, classifyVars, configVars, appVars,
                   dialogVars, refreshVars>>

NextMerge == Merge

SpecMerge == InitMerge /\ [][NextMerge]_vars

(***************************************************************************)
(* Claims on the merge (SpecMerge).                                        *)
(***************************************************************************)
\* the entries of s at the indices J, in index order
PickByIndex(s, J) ==
    [k \in 1..Cardinality(J) |->
        s[CHOOSE j \in J : Cardinality({i \in J : i < j}) = k - 1]]

\* C2: the merge is idempotent: merge(A, A) = A, merge(A, []) = A and
\* merge([], B) = B.  The result is the very list (same entries, same order),
\* which gives the same id set and the same order of first occurrence.
C2_MergeIdempotent ==
    mpc = "done" =>
        /\ (list2 = list1 => merged = list1)
        /\ (list2 = <<>> => merged = list1)
        /\ (list1 = <<>> => merged = list2)

\* C2 witness: a list of two distinct ids was merged with itself
C2_Witness ==
    /\ mpc = "done" /\ list2 = list1 /\ Len(list1) = 2
    /\ list1[1].id # "" /\ list1[2].id # "" /\ list1[1].id # list1[2].id

\* C3 as stated: merge(A, B) is A followed by the entries of B whose id does
\* not occur in A, in B's order; its id set is ids(A) union ids(B); an id of
\* both keeps A's entry.
C3_Original ==
    mpc = "done" =>
        /\ merged = list1 \o SelectSeq(list2, LAMBDA c : c.id \notin IdsOf(list1))
        /\ IdsOf(merged) = IdsOf(list1) \cup IdsOf(list2)
        /\ \A i \in 1..Len(merged) : merged[i].id \in IdsOf(list1) => i <= Len(list1)

\* C3 amended: for a non-empty A, merge(A, B) is A in its original order
\* followed by the first occurrence of each entry of B whose id is present and
\* occurs neither in A nor earlier in B, in B's order; for an empty A it is B
\* unchanged.  The present ids of the result are those of A and of B together,
\* and for an id of both the entry from A is the one kept.
C3_MergeUnion ==
    mpc = "done" =>
        IF list1 = <<>> THEN merged = list2
        ELSE LET kept == {j \in 1..Len(list2) :
                            /\ list2[j].id # ""
                            /\ list2[j].id \notin IdsOf(list1)
                            /\ \A k \in 1..(j - 1) : list2[k].id # list2[j].id}
             IN  /\ merged = list1 \o PickByIndex(list2, kept)
                 /\ PresentIdsOf(merged) = PresentIdsOf(list1) \cup PresentIdsOf(list2)
                 /\ \A i \in 1..Len(merged) :
                        merged[i].id \in IdsOf(list1) => i <= Len(list1)

\* C3 witness: B repeats an id that A does not hold, and one copy was appended
C3_Witness ==
    /\ mpc = "done" /\ list1 # <<>> /\ Len(list2) = 2
    /\ list2[1].id = list2[2].id /\ list2[1].id # ""
    /\ list2[1].id \notin IdsOf(list1)
    /\ Len(merged) = Len(list1) + 1

(***************************************************************************)
(* SpecCatalog: one run of the aggregation, one step per network call.     *)
(* app:  CMEMonitorApp.connect -> connect_thread ->                        *)
(*       get_all_contracts_comprehensive                                   *)
(* tool: Getcmesymbols.main                                                *)
(***************************************************************************)
InitCatalog ==
    /\ impl \in {"app", "tool"}
    /\ cpc = "idle" /\ session_token = ""
    /\ contracts_method1 = <<>> /\ cat_idx = 1 /\ prefix_idx = 1
    /\ category_contracts = <<>> /\ contracts_by_category = <<>>
    /\ all_contracts = <<>>
    /\ prefix_failed = FALSE /\ filter_rejected = FALSE
    /\ MergeIdle /\ ClassifyIdle /\ ConfigIdle /\ AppIdle /\ DialogIdle /\ RefreshIdle
    /\ UnitIdle /\ AutoIdle

catalogFrame == <<mergeVars, classifyVars, configVars, appVars, dialogVars, unitVars,
                  autoVars>>

\* connect(): self.api = TopstepXAPI(...), the thread starts / main() starts
Connect ==
    /\ cpc = "idle"
    /\ cpc' = "auth"
    /\ session_token' = ""
    /\ UNCHANGED <<impl, contracts_method1, cat_idx, prefix_idx, category_contracts,
                   contracts_by_category, all_contracts, prefix_failed, filter_rejected,
                   catalogFrame, refreshVars>>

Authenticate ==
    /\ cpc = "auth"
    /\ \E outcome \in AuthOutcomes :
         LET r == authenticate(impl, outcome)
         IN  /\ session_token' = r.token
             /\ cpc' = IF r.raised THEN "crashed"
                       ELSE IF r.ok THEN "strategyA" ELSE "auth_failed"
    /\ UNCHANGED <<impl, contracts_method1, cat_idx, prefix_idx, category_contracts,
                   contracts_by_category, all_contracts, prefix_failed, filter_rejected,
                   catalogFrame, refreshVars>>

\* Strategy A: search_contracts("") / get_all_contracts_detailed
StrategyA ==
    /\ cpc = "strategyA"
    /\ \E outcome \in SearchOutcomes :
         LET r == search_contracts(impl, session_token, outcome)
         IN  /\ contracts_method1' = IF r.raised THEN contracts_method1 ELSE r.contracts
             /\ cpc' = IF r.raised THEN "crashed" ELSE "strategyB"
    /\ UNCHANGED <<impl, session_token, cat_idx, prefix_idx, category_contracts,
                   contracts_by_category, all_contracts, prefix_failed, filter_rejected,
                   catalogFrame, refreshVars>>

\* Strategy B: the search for categories[cat_idx].prefixes[prefix_idx]; the
\* category's dedup follows its last prefix
CategorySearch ==
    /\ cpc = "strategyB"
    /\ \E outcome \in SearchOutcomes :
         LET prefixes == categories[cat_idx].prefixes
             prefix == prefixes[prefix_idx]
             r == search_contracts(impl, session_token, outcome)
             filtered == PrefixFilter(r.contracts, prefix)
             extended == category_contracts \o filtered
             last_prefix == prefix_idx = Len(prefixes)
             last_category == cat_idx = Len(categories)
         IN  /\ prefix_failed' = (prefix_failed \/ outcome.kind # "ok")
             /\ IF r.raised
                THEN /\ cpc' = "crashed"
                     /\ UNCHANGED <<cat_idx, prefix_idx, category_contracts,
                                    contracts_by_category, filter_rejected>>
                ELSE /\ filter_rejected' = (filter_rejected \/ Len(filtered) < Len(r.contracts))
                     /\ IF last_prefix
                        THEN /\ contracts_by_category' =
                                    Append(contracts_by_category, UniqueContracts(extended))
                             /\ category_contracts' = <<>>
                             /\ prefix_idx' = 1
                             /\ cat_idx' = IF last_category THEN cat_idx ELSE cat_idx + 1
                             /\ cpc' = IF last_category THEN "merge" ELSE "strategyB"
                        ELSE /\ category_contracts' = extended
                             /\ prefix_idx' = prefix_idx + 1
                             /\ UNCHANGED <<cat_idx, contracts_by_category, cpc>>
    /\ UNCHANGED <<impl, session_token, contracts_method1, all_contracts,
                   catalogFrame, refreshVars>>

\* flatten Strategy B, merge, and (app) store the catalog and resolve the
\* watched symbols' contracts
MergeAndStore ==
    /\ cpc = "merge"
    /\ LET contracts_method2 == Concat(contracts_by_category)
           result == merge_contract_lists(contracts_method1, contracts_method2)
       IN  /\ all_contracts' = result
           /\ contracts' = IF impl = "app" /\ result # <<>>
                           THEN ResolveContracts(contracts, watched_symbols, result)
                           ELSE contracts
    /\ cpc' = "done"
    /\ UNCHANGED <<impl, session_token, contracts_method1, cat_idx, prefix_idx,
                   category_contracts, contracts_by_category, prefix_failed,
                   filter_rejected, catalogFrame, threads, tree, bar_service>>

NextCatalog == Connect \/ Authenticate \/ StrategyA \/ CategorySearch \/ MergeAndStore

SpecCatalog == InitCatalog /\ [][NextCatalog]_vars

(***************************************************************************)
(* Claims on the aggregation (SpecCatalog).                                *)
(***************************************************************************)
\* C1: no two entries of a merged catalog share an id, whatever the two
\* strategies returned (an empty or failed Strategy A included).
C1_NoDuplicateIds == cpc = "done" => NoDuplicateIds(all_contracts)

\* C4: every contract placed in a category has a name that starts with one
\* of that category's prefixes, whatever the searches returned.
C4_PrefixFilter ==
    /\ \A i \in 1..Len(contracts_by_category) :
          \A c \in Range(contracts_by_category[i]) :
              \E p \in Range(categories[i].prefixes) : StartsWith(c.name, p)
    /\ \A c \in Range(category_contracts) :
          \E p \in Range(categories[cat_idx].prefixes) : StartsWith(c.name, p)

\* C4 witness: the aggregation ended, a category holds a contract, and the
\* filter has dropped a contract that a prefix search returned
C4_Witness ==
    /\ cpc = "done" /\ filter_rejected
    /\ \E i \in 1..Len(contracts_by_category) : contracts_by_category[i] # <<>>

\* C5: a failed category-prefix search (HTTP error status or network
\* exception) is swallowed: the aggregation is not aborted by it.
C5_FailureSwallowed == prefix_failed => cpc # "crashed"

\* the contracts placed in some category
InCategories == UNION {Range(contracts_by_category[i]) : i \in 1..Len(contracts_by_category)}

\* C25: the partition handed back holds one list per category of the table,
\* each without two entries of the same id (and without id-less entries), and
\* built from the prefix searches only: a contract that only the empty-query
\* search returned is in the merged catalog and in no category.
C25_PartitionIsStrategyB ==
    cpc = "done" =>
        /\ Len(contracts_by_category) = Len(categories)
        /\ \A k \in 1..Len(contracts_by_category) :
              LET cat == contracts_by_category[k]
              IN  \A i, j \in 1..Len(cat) :
                      cat[i].id # "" /\ (i # j => cat[i].id # cat[j].id)
        /\ \A c \in Range(contracts_method1) \ InCategories : c \in Range(all_contracts)
        /\ Range(all_contracts) \subseteq Range(contracts_method1) \cup InCategories

\* the aggregation ended with a contract of the empty-query search that is
\* in the catalog and in no category, next to a category that holds one
C25_Witness ==
    /\ cpc = "done" /\ impl = "app"
    /\ \E c \in Range(contracts_method1) : c \in Range(all_contracts) \ InCategories
    /\ InCategories # {}

(***************************************************************************)
(* MarketAnalyzer.determine_market_state.  An indicator value is a number  *)
(* or NaN (pd.isna); numbers are integers here, which keeps every          *)
(* comparison with the integer thresholds exact.  Labels (and the emoji    *)
(* returned with each, named by its severity):                             *)
(*   insufficient data = データ不足, squeeze = スクイーズ(エネルギー蓄積),      *)
(*   trend start (up/down) = トレンド開始(上昇/下降), range-bound = レンジ     *)
(***************************************************************************)
NaN == [nan |-> TRUE, v |-> 0]
Num(x) == [nan |-> FALSE, v |-> x]
Abs(x) == IF x < 0 THEN -x ELSE x

\* mutant: the squeeze and trend comparisons include their thresholds
determine_market_state_NonStrict(cv, r) ==
    IF cv.nan \/ r.nan THEN <<"insufficient data", "neutral">>
    ELSE IF cv.v <= -10 /\ Abs(r.v) <= 2 THEN <<"squeeze", "caution">>
    ELSE IF cv.v >= 10 /\ Abs(r.v) >= 3
         THEN <<IF r.v > 0 THEN "trend start (up)" ELSE "trend start (down)", "alert">>
    ELSE <<"range-bound", "normal">>

determine_market_state(cv, r) ==
    IF cv.nan \/ r.nan THEN <<"insufficient data", "neutral">>
    ELSE IF cv.v < -10 /\ Abs(r.v) < 2 THEN <<"squeeze", "caution">>
    ELSE IF cv.v > 10 /\ Abs(r.v) > 3
         THEN <<IF r.v > 0 THEN "trend start (up)" ELSE "trend start (down)", "alert">>
    ELSE <<"range-bound", "normal">>

(***************************************************************************)
(* Configuration files the application may find at start.                  *)
(***************************************************************************)
SampleFiles ==
    {[status |-> "absent", data |-> NoData],
     [status |-> "corrupt", data |-> NoData],
     [status |-> "ok", data |-> [timeframe |-> "1D"]],
     [status |-> "ok", data |-> [watched_symbols |-> <<>>]],
     [status |-> "ok", data |-> [watched_symbols |-> <<"MGCZ5">>, theme |-> "dark"]],
     [status |-> "ok", data |-> [watched_symbols |-> <<"ES Z5", "ESZ5">>, debug_mode |-> TRUE]],
     [status |-> "ok", data |-> [squeeze_threshold |-> -12, trend_threshold |-> 12,
                                 roc_squeeze_threshold |-> 1, roc_trend_threshold |-> 4]]}

\* the state of ConfigManager and of the app's attributes after __init__
ConfigLoadedFrom(files) ==
    /\ file \in files
    /\ config = load_config(file, DefaultConfig)
    /\ default_config = DefaultConfig
    /\ config_aliased = LoadAliased(file)

ConfigLoaded == ConfigLoadedFrom(SampleFiles)

AppConstructed ==
    /\ watched_symbols = config.watched_symbols
    /\ timeframe = config.timeframe
    /\ debug_mode = config.debug_mode

(***************************************************************************)
(* SpecClassify: the classification of one latest indicator pair, as       *)
(* update_data calls it, under every sample configuration.                 *)
(***************************************************************************)
IndicatorValues(max) == {NaN} \cup {Num(x) : x \in (-max)..max}

InitClassify ==
    /\ ConfigLoaded /\ AppConstructed /\ disk = "ok"
    /\ chaikin_vol \in IndicatorValues(CvMax)
    /\ roc \in IndicatorValues(RocMax)
    /\ market_state = <<"", "">> /\ clpc = "ready"
    /\ MergeIdle /\ CatalogIdle /\ DialogIdle /\ RefreshIdle /\ UnitIdle /\ AutoIdle

\* state, emoji = MarketAnalyzer.determine_market_state(chaikin_vol, roc)
Classify ==
    /\ clpc = "ready"
    /\ market_state' = determine_market_state(chaikin_vol, roc)
    /\ clpc' = "classified"
    /\ UNCHANGED <<chaikin_vol, roc, mergeVars, catalogVars, unitVars, autoVars, configVars, appVars,
                   dialogVars, refreshVars>>

NextClassify == Classify

SpecClassify == InitClassify /\ [][NextClassify]_vars

(***************************************************************************)
(* Claims on the classification (SpecClassify).                            *)
(***************************************************************************)
\* the decision table for thresholds (sq, tr, rsq, rtr)
TableLabel(sq, tr, rsq, rtr, cv, r) ==
    CASE cv.nan \/ r.nan -> "insufficient data"
      [] ~(cv.nan \/ r.nan) /\ cv.v < sq /\ Abs(r.v) < rsq -> "squeeze"
      [] ~(cv.nan \/ r.nan) /\ ~(cv.v < sq /\ Abs(r.v) < rsq)
            /\ cv.v > tr /\ Abs(r.v) > rtr /\ r.v > 0 -> "trend start (up)"
      [] ~(cv.nan \/ r.nan) /\ ~(cv.v < sq /\ Abs(r.v) < rsq)
            /\ cv.v > tr /\ Abs(r.v) > rtr /\ r.v <= 0 -> "trend start (down)"
      [] OTHER -> "range-bound"

\* C6: the classification follows the decision table with thresholds -10, 10,
\* 2 and 3, all four inequalities strict: a value exactly at a threshold does
\* not satisfy its condition.
C6_DecisionTable ==
    clpc = "classified" =>
        /\ market_state[1] = TableLabel(-10, 10, 2, 3, chaikin_vol, roc)
        /\ (~chaikin_vol.nan /\ chaikin_vol.v = -10) => market_state[1] # "squeeze"
        /\ (~roc.nan /\ Abs(roc.v) = 2) => market_state[1] # "squeeze"
        /\ (~chaikin_vol.nan /\ chaikin_vol.v = 10) =>
                market_state[1] \notin {"trend start (up)", "trend start (down)"}
        /\ (~roc.nan /\ Abs(roc.v) = 3) =>
                market_state[1] \notin {"trend start (up)", "trend start (down)"}

\* C6 witness: a pair just inside the squeeze region was classified squeeze
C6_Witness ==
    /\ clpc = "classified" /\ chaikin_vol = Num(-11) /\ roc = Num(1)
    /\ market_state[1] = "squeeze"

\* C7: the classification uses the thresholds held in the configuration.
C7_ThresholdsFromConfig ==
    clpc = "classified" =>
        market_state[1] = TableLabel(config.squeeze_threshold, config.trend_threshold,
                                     config.roc_squeeze_threshold, config.roc_trend_threshold,
                                     chaikin_vol, roc)

(***************************************************************************)
(* The connected application: the catalog a completed aggregation left     *)
(* (Strategy A answered ESZ5 and the id-less NQZ5, Strategy B found ESZ5,  *)
(* MGCZ5 twice and VXMZ5), as SpecCatalog reaches it.                      *)
(***************************************************************************)
AppCatalog == <<
    [id |-> "c2", name |-> "ESZ5"],
    [id |-> "",   name |-> "NQZ5"],
    [id |-> "c1", name |-> "MGCZ5"] >>

AppCategories == <<
    <<[id |-> "c2", name |-> "ESZ5"]>>, <<>>,
    <<[id |-> "c1", name |-> "MGCZ5"]>>, <<[id |-> "c1", name |-> "MGCZ5"]>>,
    <<>>, <<>>, <<>>, <<>>, <<>>, <<>> >>

Connected ==
    /\ impl = "app" /\ cpc = "done" /\ session_token = "tok"
    /\ contracts_method1 = SubSeq(AppCatalog, 1, 2)
    /\ cat_idx = Len(categories) /\ prefix_idx = 1
    /\ category_contracts = <<>>
    /\ contracts_by_category = AppCategories
    /\ all_contracts = AppCatalog
    /\ prefix_failed = FALSE /\ filter_rejected = FALSE

\* "if not self.api": the api object exists once connect() has run
ApiCreated == cpc \notin {"off", "idle"}

(***************************************************************************)
(* ConfigManager.save_config and the app's writes to self.config.  The     *)
(* write succeeds or fails (the exception is caught, the file is left as   *)
(* it was).  self.config is default_config itself when load_config handed  *)
(* that out, so a write to one is a write to both.                         *)
(***************************************************************************)
SaveOutcomes(d) == IF d = "ok" THEN {"ok"} ELSE {"io_error"}

save_config(f, cfg, outcome) ==
    IF outcome = "ok" THEN [status |-> "ok", data |-> cfg] ELSE f

\* history: some save_config call has written the file
Saved(s, outcome) == s \/ outcome = "ok"

\* mutant: the assignment to self.config[key] is lost
ConfigSet_NoWrite(cfg, key, value) == cfg

ConfigSet(cfg, key, value) == [cfg EXCEPT ![key] = value]

Timeframes == {"3m", "15m", "1H", "4H", "1D"}

\* the radio buttons clicked in the model
SampleTimeframes == {"1D"}

(***************************************************************************)
(* SymbolManagerDialog                                                     *)
(***************************************************************************)
CategoryChoices == {"all"} \cup {categories[i].name : i \in 1..Len(categories)}

CategoryIndex(cat) == CHOOSE i \in 1..Len(categories) : categories[i].name = cat

\* populate_available_contracts: the names listed for adding under the
\* category filter cat
AvailableNames(watched, cat, catalog, by_category) ==
    IF catalog = <<>> THEN {}
    ELSE LET filtered_contracts ==
                 IF cat = "all" THEN catalog ELSE by_category[CategoryIndex(cat)]
         IN  {c.name : c \in {x \in Range(filtered_contracts) : x.name \notin Range(watched)}}

\* add_symbol for the selected contract name
add_symbol(watched, symbol) ==
    IF symbol # "" /\ symbol \notin Range(watched) THEN Append(watched, symbol) ELSE watched

\* selected_text.split()[0] of f"{symbol:10s} - {description}"
RECURSIVE TrimLeft(_)
TrimLeft(s) ==
    IF Len(s) = 0 THEN s
    ELSE IF SubSeq(s, 1, 1) = " " THEN TrimLeft(SubSeq(s, 2, Len(s))) ELSE s

RECURSIVE TakeWord(_)
TakeWord(s) ==
    IF Len(s) = 0 THEN s
    ELSE IF SubSeq(s, 1, 1) = " " THEN ""
    ELSE SubSeq(s, 1, 1) \o TakeWord(SubSeq(s, 2, Len(s)))

FirstWord(symbol) == LET t == TrimLeft(symbol) IN IF t = "" THEN "-" ELSE TakeWord(t)

\* list.remove(x): the first occurrence goes
ListRemove(l, x) ==
    LET i == CHOOSE k \in 1..Len(l) : l[k] = x /\ \A j \in 1..(k - 1) : l[j] # x
    IN  SubSeq(l, 1, i - 1) \o SubSeq(l, i + 1, Len(l))

\* mutant: the guard lets the last symbol go (len < 1 instead of len <= 1)
remove_symbol_OffByOne(watched, selected) ==
    LET symbol == FirstWord(watched[selected])
    IN  IF symbol \in Range(watched)
        THEN IF Len(watched) < 1
             THEN [watched |-> watched, result |-> "rejected_last"]
             ELSE [watched |-> ListRemove(watched, symbol), result |-> "removed"]
        ELSE [watched |-> watched, result |-> "not_found"]

\* remove_symbol for the selected row of the watched listbox
remove_symbol(watched, selected) ==
    LET symbol == FirstWord(watched[selected])
    IN  IF symbol \in Range(watched)
        THEN IF Len(watched) <= 1
             THEN [watched |-> watched, result |-> "rejected_last"]
             ELSE [watched |-> ListRemove(watched, symbol), result |-> "removed"]
        ELSE [watched |-> watched, result |-> "not_found"]

(***************************************************************************)
(* Bars and the schema part of MarketAnalyzer.calculate_indicators.  A bar *)
(* set is described by its column names, whether it is empty, and the      *)
(* indicator pair its last row yields.                                     *)
(***************************************************************************)
rename_map(col) ==
    CASE col \in {"t", "timestamp", "datetime", "date"} -> "time"
      [] col = "o" -> "open"
      [] col = "h" -> "high"
      [] col = "l" -> "low"
      [] col = "c" -> "close"
      [] col = "v" -> "volume"
      [] OTHER -> col

RenamedColumns(cols) == {rename_map(c) : c \in cols}

\* calculate_indicators raises ValueError: no time column, or a required one missing
SchemaError(cols) ==
    \/ "time" \notin RenamedColumns(cols)
    \/ \E col \in {"high", "low", "close"} : col \notin RenamedColumns(cols)

SampleBars ==
    {[empty |-> TRUE,  columns |-> {}, latest |-> <<NaN, NaN>>],
     [empty |-> FALSE, columns |-> {"t", "o", "h", "l", "c", "v"}, latest |-> <<NaN, NaN>>],
     [empty |-> FALSE, columns |-> {"t", "o", "h", "l", "c", "v"}, latest |-> <<Num(-11), Num(1)>>],
     [empty |-> FALSE, columns |-> {"t", "o", "l", "c", "v"}, latest |-> <<NaN, NaN>>]}

NoBars == [empty |-> TRUE, columns |-> {}, latest |-> <<NaN, NaN>>]

\* the body of a 200 answer: {"data": [...]}, {"bars": [...]} or the bare [...]
BodyShapes == {"data", "bars", "bare"}

BarOutcomes(service) ==
    IF service = "unreachable"
    THEN {[kind |-> "exception", shape |-> "none", bars |-> NoBars]}
    ELSE [kind : {"ok"}, shape : BodyShapes, bars : SampleBars]
            \cup {[kind |-> "http_error", shape |-> "none", bars |-> NoBars],
                  [kind |-> "exception", shape |-> "none", bars |-> NoBars]}

\* response.json().get('data', response.json().get('bars', response.json())):
\* .get is called on the body whatever it is; a list has no .get
\* (AttributeError).  Result: [raised, bars].
UnwrapBody(shape, bars) ==
    IF shape = "bare" THEN [raised |-> TRUE, bars |-> NoBars]
    ELSE [raised |-> FALSE, bars |-> bars]

\* get_historical_data: [raised, none, bars]
get_historical_data(token, outcome) ==
    IF token = "" THEN [raised |-> FALSE, none |-> TRUE, bars |-> NoBars]
    ELSE IF outcome.kind = "exception" THEN [raised |-> TRUE, none |-> TRUE, bars |-> NoBars]
    ELSE IF outcome.kind = "http_error" THEN [raised |-> FALSE, none |-> TRUE, bars |-> NoBars]
    ELSE LET body == UnwrapBody(outcome.shape, outcome.bars)
         IN  IF body.raised THEN [raised |-> TRUE, none |-> TRUE, bars |-> NoBars]
             ELSE [raised |-> FALSE, none |-> FALSE, bars |-> body.bars]

\* the body of update_thread's loop for one instrument:
\* "skipped" (continue), "raised" (the exception leaves the thread) or a row
ProcessInstrument(token, contract, tf, outcome) ==
    LET r == get_historical_data(token, outcome)
    IN  IF r.raised THEN [result |-> "raised", row |-> <<>>]
        ELSE IF r.none \/ r.bars.empty THEN [result |-> "skipped", row |-> <<>>]
        ELSE IF SchemaError(r.bars.columns) THEN [result |-> "raised", row |-> <<>>]
        ELSE [result |-> "row",
              row |-> <<[name |-> contract.name, timeframe |-> tf,
                         state |-> determine_market_state(r.bars.latest[1], r.bars.latest[2])[1]]>>]

(***************************************************************************)
(* update_data: the guard and the start of an update thread.  A finished   *)
(* or crashed thread's slot is taken again by the next thread.             *)
(***************************************************************************)
ReusableSlots(thr) == {t \in DOMAIN thr : thr[t].pc \in {"free", "done", "crashed"}}

WouldStart(ctr) == ApiCreated /\ ctr # <<>>

\* the update threads that have not ended
LiveThreads(thr) == {t \in DOMAIN thr : thr[t].pc \in {"start", "iter"}}

\* mutant: no new cycle while one is in progress
update_data_Exclusive(thr, ctr) ==
    IF WouldStart(ctr) /\ LiveThreads(thr) = {}
    THEN LET t == CHOOSE x \in ReusableSlots(thr) : \A y \in ReusableSlots(thr) : x <= y
         IN  [thr EXCEPT ![t] = [pc |-> "start", pos |-> 0, used |-> 0, due |-> <<>>]]
    ELSE thr

update_data(thr, ctr) ==
    IF WouldStart(ctr)
    THEN LET t == CHOOSE x \in ReusableSlots(thr) : \A y \in ReusableSlots(thr) : x <= y
         IN  [thr EXCEPT ![t] = [pc |-> "start", pos |-> 0, used |-> 0, due |-> <<>>]]
    ELSE thr

\* the model holds as many live threads as it has slots
SlotFor(ctr) == WouldStart(ctr) => ReusableSlots(threads) # {}

ClosedDialog == [open |-> FALSE, watched_symbols |-> <<>>]

(***************************************************************************)
(* Handlers of the main window (unreachable while the modal dialog has the *)
(* grab).                                                                  *)
(***************************************************************************)
UpdateData ==
    /\ ~dialog.open
    /\ SlotFor(contracts)
    /\ threads' = update_data(threads, contracts)
    /\ UNCHANGED <<mergeVars, catalogVars, unitVars, autoVars, classifyVars, configVars, appVars,
                   dialogVars, contracts, tree, bar_service>>

ToggleDebugMode ==
    /\ ~dialog.open
    /\ \E outcome \in SaveOutcomes(disk) :
         LET cfg == ConfigSet(config, "debug_mode", ~debug_mode)
         IN  /\ debug_mode' = ~debug_mode
             /\ config' = cfg
             /\ default_config' = IF config_aliased THEN cfg ELSE default_config
             /\ file' = save_config(file, cfg, outcome)
             /\ saved' = Saved(saved, outcome)
    /\ UNCHANGED <<mergeVars, catalogVars, unitVars, autoVars, classifyVars, config_aliased, disk,
                   watched_symbols, timeframe, dialog, last_op, refreshVars>>

OnTimeframeChange ==
    /\ ~dialog.open
    /\ SlotFor(contracts)
    /\ \E tf \in SampleTimeframes, outcome \in SaveOutcomes(disk) :
         LET cfg == ConfigSet(config, "timeframe", tf)
         IN  /\ timeframe' = tf
             /\ config' = cfg
             /\ default_config' = IF config_aliased THEN cfg ELSE default_config
             /\ file' = save_config(file, cfg, outcome)
             /\ saved' = Saved(saved, outcome)
    /\ threads' = update_data(threads, contracts)
    /\ UNCHANGED <<mergeVars, catalogVars, unitVars, autoVars, classifyVars, config_aliased, disk,
                   watched_symbols, debug_mode, dialog, last_op, contracts, tree,
                   bar_service>>

OpenSymbolManager ==
    /\ ~dialog.open
    /\ IF ApiCreated /\ all_contracts # <<>>
       THEN /\ dialog' = [open |-> TRUE, watched_symbols |-> watched_symbols]
            /\ last_op' = [op |-> "open_symbol_manager", result |-> "opened"]
       ELSE /\ dialog' = dialog
            /\ last_op' = [op |-> "open_symbol_manager", result |-> "not_connected"]
    /\ UNCHANGED <<mergeVars, catalogVars, unitVars, autoVars, classifyVars, configVars, appVars,
                   saved, refreshVars>>

(***************************************************************************)
(* Handlers of the symbol-manager dialog.                                  *)
(***************************************************************************)
dialogFrame == <<mergeVars, catalogVars, unitVars, autoVars, classifyVars, configVars, appVars,
                 saved, refreshVars>>

\* on_category_change only sets the filter the next selection is drawn from:
\* the filter is chosen here, with the selection
AddSymbol ==
    /\ dialog.open
    /\ Len(dialog.watched_symbols) < MaxWatched
    /\ \E cat \in CategoryChoices :
         \E symbol \in AvailableNames(dialog.watched_symbols, cat,
                                      all_contracts, contracts_by_category) :
            dialog' = [dialog EXCEPT !.watched_symbols = add_symbol(@, symbol)]
    /\ last_op' = [op |-> "add_symbol", result |-> "added"]
    /\ UNCHANGED dialogFrame

RemoveSymbol ==
    /\ dialog.open
    /\ \E selected \in 1..Len(dialog.watched_symbols) :
         LET r == remove_symbol(dialog.watched_symbols, selected)
         IN  /\ dialog' = [dialog EXCEPT !.watched_symbols = r.watched]
             /\ last_op' = [op |-> "remove_symbol", result |-> r.result]
    /\ UNCHANGED dialogFrame

Cancel ==
    /\ dialog.open
    /\ dialog' = ClosedDialog
    /\ last_op' = [op |-> "cancel",
                    result |-> IF dialog.watched_symbols = watched_symbols
                               THEN "unedited" ELSE "discarded"]
    /\ UNCHANGED dialogFrame

\* save_and_close -> callback = CMEMonitorApp.on_symbols_updated -> update_data
SaveAndClose ==
    /\ dialog.open
    /\ IF Len(dialog.watched_symbols) = 0
       THEN /\ last_op' = [op |-> "save_and_close", result |-> "rejected_empty"]
            /\ UNCHANGED <<dialog, configVars, appVars, saved, refreshVars>>
       ELSE LET new_symbols == dialog.watched_symbols
                cfg == ConfigSet(config, "watched_symbols", new_symbols)
                resolved == ResolveContracts(<<>>, new_symbols, all_contracts)
            IN  /\ SlotFor(resolved)
                /\ \E outcome \in SaveOutcomes(disk) :
                     /\ file' = save_config(file, cfg, outcome)
                     /\ saved' = Saved(saved, outcome)
                     /\ last_op' = [op |-> "save_and_close", result |-> outcome]
                /\ watched_symbols' = new_symbols
                /\ config' = cfg
                /\ default_config' = IF config_aliased THEN cfg ELSE default_config
                /\ contracts' = resolved
                /\ threads' = update_data(threads, resolved)
                /\ dialog' = ClosedDialog
                /\ UNCHANGED <<config_aliased, disk, timeframe, debug_mode, tree, bar_service>>
    /\ UNCHANGED <<mergeVars, catalogVars, unitVars, autoVars, classifyVars>>

(***************************************************************************)
(* update_thread, one step per network call.                               *)
(***************************************************************************)
threadFrame == <<mergeVars, catalogVars, unitVars, autoVars, classifyVars, configVars, appVars,
                 dialogVars, contracts, bar_service>>

\* the thread has ended (how |-> "done" or "crashed"): its iterator is gone
Ended(thread, how) == [pc |-> how, pos |-> thread.pos, used |-> 0, due |-> thread.due]

\* clear the table, then open the iteration over self.contracts.items()
T_Clear(t) ==
    /\ threads[t].pc = "start"
    /\ tree' = <<>>
    /\ threads' = [threads EXCEPT ![t] = [pc |-> "iter", pos |-> 0, used |-> Len(contracts), due |-> <<>>]]
    /\ UNCHANGED threadFrame

\* history, kept in the thread's due field: the instruments of this cycle
\* whose bar request came back with a non-empty series
Fetched(token, contract, outcome) ==
    LET r == get_historical_data(token, outcome)
    IN  IF ~r.raised /\ ~r.none /\ ~r.bars.empty THEN <<contract.name>> ELSE <<>>

\* the next instrument: fetch, compute, insert the row
T_Next(t) ==
    /\ threads[t].pc = "iter"
    /\ IF Len(contracts) # threads[t].used
       THEN \* RuntimeError: dictionary changed size during iteration
            /\ threads' = [threads EXCEPT ![t] = Ended(@, "crashed")]
            /\ tree' = tree
       ELSE /\ threads[t].pos < Len(contracts)
            /\ \E outcome \in BarOutcomes(bar_service) :
                 LET contract == contracts[threads[t].pos + 1].contract
                     r == ProcessInstrument(session_token, contract, timeframe, outcome)
                     due == threads[t].due \o Fetched(session_token, contract, outcome)
                 IN  IF r.result = "raised"
                     THEN /\ threads' = [threads EXCEPT ![t] = Ended([@ EXCEPT !.due = due],
                                                                     "crashed")]
                          /\ tree' = tree
                     ELSE /\ threads' = [threads EXCEPT ![t].pos = @ + 1, ![t].due = due]
                          /\ tree' = tree \o r.row
    /\ UNCHANGED threadFrame

\* the iteration is exhausted: "更新完了", the thread ends
T_Finish(t) ==
    /\ threads[t].pc = "iter"
    /\ Len(contracts) = threads[t].used
    /\ threads[t].pos >= Len(contracts)
    /\ threads' = [threads EXCEPT ![t] = Ended(@, "done")]
    /\ UNCHANGED <<tree, threadFrame>>

UpdateThread == \E t \in DOMAIN threads : T_Clear(t) \/ T_Next(t) \/ T_Finish(t)

(***************************************************************************)
(* SpecRefresh: refresh cycles of the connected application against a bar  *)
(* service that may answer anything.                                       *)
(* SpecRegistry: configuration, dialog and handlers of the connected       *)
(* application while the bar service is unreachable (every request raises  *)
(* a connection error).                                                    *)
(***************************************************************************)
InitApp(files, slots) ==
    /\ ConfigLoadedFrom(files) /\ AppConstructed /\ Connected
    /\ contracts = ResolveContracts(<<>>, watched_symbols, all_contracts)
    /\ threads = [t \in 1..slots |-> [pc |-> "free", pos |-> 0, used |-> 0, due |-> <<>>]]
    /\ tree = <<>>
    /\ DialogIdle /\ MergeIdle /\ ClassifyIdle /\ UnitIdle

InitRefresh ==
    InitApp(SampleFiles, MaxThreads) /\ disk = "ok" /\ bar_service = "up" /\ AutoIdle

NextRefresh == UpdateData \/ UpdateThread

SpecRefresh == InitRefresh /\ [][NextRefresh]_vars

\* SpecCycle: refresh cycles one at a time (update_data is not called while
\* a cycle is in progress), the watch list left alone
InitCycle == InitApp(SampleFiles, 1) /\ disk = "ok" /\ bar_service = "up" /\ AutoIdle

SpecCycle == InitCycle /\ [][NextRefresh]_vars

\* the configuration files SpecRegistry starts from
RegistryFiles ==
    {f \in SampleFiles : f.status = "absent" \/ "watched_symbols" \in DOMAIN f.data}

InitRegistry ==
    /\ InitApp(RegistryFiles, MaxRefreshes)
    /\ disk \in {"ok", "readonly"}
    /\ bar_service = "unreachable"
    /\ AutoIdle

NextRegistry ==
    \/ ToggleDebugMode \/ OnTimeframeChange \/ OpenSymbolManager
    \/ AddSymbol \/ RemoveSymbol \/ Cancel \/ SaveAndClose
    \/ UpdateThread

SpecRegistry == InitRegistry /\ [][NextRegistry]_vars

(***************************************************************************)
(* Claims on the refresh cycle and on the watch registry.                  *)
(***************************************************************************)
\* C8: no failing instrument ends a refresh cycle early: whatever the bar
\* request of one instrument returns or raises, and whatever columns its bars
\* carry, the update thread never dies of it (it goes on to the remaining
\* instruments and reaches its end).
C8_FailureIsolated == \A t \in DOMAIN threads : threads[t].pc # "crashed"

\* C24: update_data starts a new cycle while another cycle is in progress
\* (nothing excludes it), and the cycles' table writes interleave: the table
\* can come to hold two rows for one instrument.
C24_NoMutualExclusion ==
    (WouldStart(contracts) /\ LiveThreads(threads) # {} /\ ReusableSlots(threads) # {}) =>
        ENABLED <<UpdateData>>_threads

\* two cycles are in progress and the table holds two rows of one instrument
C24_Witness ==
    /\ Cardinality(LiveThreads(threads)) >= 2
    /\ \E i, j \in 1..Len(tree) : i < j /\ tree[i].name = tree[j].name

\* C29: when a cycle that nothing overlapped has ended, the table holds one
\* row for each instrument whose bar request returned a non-empty series, in
\* the order of the contracts map, and nothing else.
C29_CycleRows ==
    \A t \in DOMAIN threads :
        threads[t].pc \in {"done", "crashed"} =>
            [i \in 1..Len(tree) |-> tree[i].name] = threads[t].due

\* C9: remove_symbol on a dialog list of length 1 is rejected: the step leaves
\* the dialog's list as it was, and with it the application's list, the
\* configuration, the resolved contracts and config.json.
C9_LastSymbolKept ==
    [][(RemoveSymbol /\ Len(dialog.watched_symbols) = 1) =>
          /\ last_op'.result # "removed"
          /\ dialog'.watched_symbols = dialog.watched_symbols
          /\ watched_symbols' = watched_symbols
          /\ config' = config
          /\ contracts' = contracts
          /\ file' = file]_vars

\* the dialog holds one symbol and its removal has just been rejected
C9_Witness ==
    /\ dialog.open
    /\ Len(dialog.watched_symbols) = 1
    /\ last_op = [op |-> "remove_symbol", result |-> "rejected_last"]

\* C10: once save_config has written config.json, the watched_symbols it
\* holds has at least one entry.
C10_PersistedNonEmpty == saved => Len(file.data.watched_symbols) >= 1

\* the keys of the configuration that load_config does not know
ExtraKeys(cfg) == (DOMAIN cfg) \ (DOMAIN DefaultConfig)

\* C23: the loaded configuration holds every key of the file with the
\* file's value and every recognized key; the app's changes keep the extra
\* keys as they are, every write of config.json writes the configuration
\* with them, and the built-in defaults stay as they were constructed.
C23_ExtraKeysKept ==
    /\ (file.status = "ok" => \A k \in DOMAIN file.data : config[k] = file.data[k])
    /\ [](DOMAIN DefaultConfig \subseteq DOMAIN config)
    /\ [][/\ \A k \in ExtraKeys(config) : k \in DOMAIN config' /\ config'[k] = config[k]
          /\ file' # file => file'.data = config']_vars
    /\ [](default_config = DefaultConfig)

\* C30: add_symbol, remove_symbol and cancel leave the application's watch
\* list, its contracts map, its configuration and config.json as they are;
\* the watch list changes only by save_and_close, which hands over the
\* dialog's list.
C30_CancelDiscards ==
    [][/\ (dialog.open /\ last_op'.op \in {"add_symbol", "remove_symbol", "cancel"}) =>
              /\ watched_symbols' = watched_symbols
              /\ contracts' = contracts
              /\ config' = config
              /\ file' = file
       /\ (watched_symbols' # watched_symbols \/ contracts' # contracts) =>
              /\ dialog.open /\ ~dialog'.open
              /\ last_op'.op = "save_and_close"
              /\ watched_symbols' = dialog.watched_symbols
              /\ config'.watched_symbols = dialog.watched_symbols]_vars

\* a dialog whose list had been edited was cancelled, nothing was written
C30_Witness ==
    /\ ~dialog.open
    /\ last_op = [op |-> "cancel", result |-> "discarded"]
    /\ ~saved

(***************************************************************************)
(* SpecRegistryLive: SpecRegistry in which some handler or thread step is  *)
(* always eventually taken (the user and the scheduler do not stop).       *)
(***************************************************************************)
SpecRegistryLive == SpecRegistry /\ WF_vars(NextRegistry)

\* the lists the dialog builds from the catalog's names
CatalogLists == SeqsUpTo({AppCatalog[i].name : i \in 1..Len(AppCatalog)}, MaxWatched)

\* add_symbol or remove_symbol has just changed the dialog's list to l
Mutated(l) ==
    /\ dialog.open
    /\ last_op.op \in {"add_symbol", "remove_symbol"}
    /\ last_op.result \in {"added", "removed"}
    /\ dialog.watched_symbols = l

\* config.json holds l as its watched_symbols
Written(l) ==
    /\ file.status = "ok"
    /\ "watched_symbols" \in DOMAIN file.data
    /\ file.data.watched_symbols = l

\* C11: every successful add or remove is followed by a write of config.json
\* that holds the list as that mutation left it (the disk being writable).
C11_MutationSaved ==
    \A l \in CatalogLists : (disk = "ok" /\ Mutated(l)) ~> Written(l)

(***************************************************************************)
(* Auto-refresh: start_auto_update, stop_auto_update and the               *)
(* auto_update_loop threads.  A loop is at its while test ("check"), in    *)
(* time.sleep ("sleep") or over ("ended"); a slot not started yet is       *)
(* "free".                                                                 *)
(***************************************************************************)
FreeLoops(lps) == {l \in DOMAIN lps : lps[l].pc = "free"}

AliveLoops(lps) == {l \in DOMAIN lps : lps[l].pc \in {"check", "sleep"}}

\* start_auto_update: [running, loops] after the call
start_auto_update(running, lps) ==
    IF running THEN [running |-> running, loops |-> lps]
    ELSE LET l == CHOOSE x \in FreeLoops(lps) : \A y \in FreeLoops(lps) : x <= y
         IN  [running |-> TRUE, loops |-> [lps EXCEPT ![l] = [pc |-> "check"]]]

\* stop_auto_update: the flag after the call
stop_auto_update(running) == FALSE

\* mutant: the loop goes on whatever the flag says (while True)
LoopTest_Forever(running) == "update"

\* "while self.auto_update_running": into the body, or out of the loop
LoopTest(running) == IF running THEN "update" ELSE "ended"

\* the model holds MaxLoops loop threads
LoopSlot == auto_update_running \/ FreeLoops(loops) # {}

autoFrame == <<mergeVars, catalogVars, unitVars, classifyVars, configVars, appVars,
               dialogVars, contracts, bar_service>>

StartAutoUpdate ==
    /\ LoopSlot
    /\ LET r == start_auto_update(auto_update_running, loops)
       IN  /\ auto_update_running' = r.running
           /\ loops' = r.loops
    /\ UNCHANGED <<autoFrame, threads, tree>>

StopAutoUpdate ==
    /\ auto_update_running' = IF auto_update_running
                              THEN stop_auto_update(auto_update_running)
                              ELSE auto_update_running
    /\ UNCHANGED <<autoFrame, loops, threads, tree>>

\* the while test and, in the body, self.update_data()
L_Check(l) ==
    /\ loops[l].pc = "check"
    /\ IF LoopTest(auto_update_running) = "update"
       THEN /\ SlotFor(contracts)
            /\ threads' = update_data(threads, contracts)
            /\ loops' = [loops EXCEPT ![l].pc = "sleep"]
       ELSE /\ loops' = [loops EXCEPT ![l].pc = "ended"]
            /\ threads' = threads
    /\ UNCHANGED <<autoFrame, auto_update_running, tree>>

\* time.sleep(interval) returns
L_Wake(l) ==
    /\ loops[l].pc = "sleep"
    /\ loops' = [loops EXCEPT ![l].pc = "check"]
    /\ UNCHANGED <<autoFrame, auto_update_running, threads, tree>>

AutoUpdateLoop == \E l \in DOMAIN loops : L_Check(l) \/ L_Wake(l)

\* SpecAuto: the connected application, auto-refresh started and stopped at
\* will; SpecAutoLive: every loop thread and every update thread keeps
\* being scheduled
AutoFiles == {f \in SampleFiles : "theme" \in DOMAIN f.data}

InitAuto ==
    /\ InitApp(AutoFiles, MaxRefreshes)
    /\ disk = "ok" /\ bar_service = "up"
    /\ auto_update_running = FALSE
    /\ loops = [l \in 1..MaxLoops |-> [pc |-> "free"]]

NextAuto == StartAutoUpdate \/ StopAutoUpdate \/ AutoUpdateLoop \/ UpdateThread

SpecAuto == InitAuto /\ [][NextAuto]_vars

SpecAutoLive == SpecAuto /\ WF_vars(AutoUpdateLoop) /\ WF_vars(UpdateThread)

\* C22: stop_auto_update leaves the update threads and the table alone; a
\* loop that finds the flag cleared at its test starts no cycle and is over
\* for good; and once the flag stays cleared every loop ends.
C22_CooperativeStop ==
    /\ [][/\ StopAutoUpdate => (threads' = threads /\ tree' = tree /\ loops' = loops)
          /\ \A l \in DOMAIN loops :
                /\ (loops[l].pc = "check" /\ ~auto_update_running /\ loops'[l] # loops[l]) =>
                        (loops'[l].pc = "ended" /\ threads' = threads)
                /\ loops[l].pc = "ended" => loops'[l].pc = "ended"]_vars
    /\ <>[](~auto_update_running) => <>[](AliveLoops(loops) = {})

\* auto-refresh has been stopped, its loop has ended, and a cycle it had
\* triggered is still in progress
C22_Witness ==
    /\ ~auto_update_running
    /\ \E l \in DOMAIN loops : loops[l].pc = "ended"
    /\ AliveLoops(loops) = {}
    /\ LiveThreads(threads) # {}

\* C27: at most one auto_update_loop is alive at any time, and
\* start_auto_update while the flag is set starts none.
C27_OneLoop ==
    /\ [](Cardinality(AliveLoops(loops)) <= 1)
    /\ [][(auto_update_running /\ StartAutoUpdate) => loops' = loops]_vars

(***************************************************************************)
(* SpecReconnect: connect() clicked again on the connected application     *)
(* (the button stays enabled); the model follows one further connect.      *)
(* connect_thread makes a new TopstepXAPI and runs the aggregation again;  *)
(* contracts_by_category is here the partition being built, the dialog     *)
(* that reads the application's copy is left out.                          *)
(***************************************************************************)
Reconnect ==
    /\ cpc = "done" /\ all_contracts = AppCatalog
    /\ cpc' = "auth"
    /\ session_token' = ""
    /\ contracts_method1' = <<>> /\ cat_idx' = 1 /\ prefix_idx' = 1
    /\ category_contracts' = <<>> /\ contracts_by_category' = <<>>
    /\ UNCHANGED <<impl, all_contracts, prefix_failed, filter_rejected, catalogFrame,
                   refreshVars>>

InitReconnect ==
    /\ InitApp(AutoFiles, MaxRefreshes)
    /\ disk = "ok" /\ bar_service = "up"
    /\ AutoIdle

NextReconnect == Reconnect \/ Authenticate \/ StrategyA \/ CategorySearch \/ MergeAndStore

SpecReconnect == InitReconnect /\ [][NextReconnect]_vars

\* C28: every key of the contracts map is a watched name and maps to the
\* first contract of the catalog that has that name.
C28_ContractsConsistent ==
    \A i \in 1..Len(contracts) :
        /\ contracts[i].symbol \in Range(watched_symbols)
        /\ HasContract(all_contracts, contracts[i].symbol)
        /\ contracts[i].contract = FirstContract(all_contracts, contracts[i].symbol)

(***************************************************************************)
(* Claims on the session (SpecCatalog).                                    *)
(***************************************************************************)
\* C12: a login that does not succeed (rejected credentials, HTTP error
\* status, network failure) takes connect to the 'connection failed' state
\* with no token held, and connect stays there: no search, no second login.
C12_AuthFailureFatal ==
    [][/\ (cpc = "auth" /\ cpc' # "strategyA") =>
              (cpc' = "auth_failed" /\ session_token' = "")
       /\ cpc = "auth_failed" => (cpc' = "auth_failed" /\ session_token' = "")]_vars

(***************************************************************************)
(* SpecClient: the calls of one API client object, one at a time, in any   *)
(* order, each against any answer of the service.  A request is what       *)
(* requests.post is handed: the endpoint, the Authorization header and     *)
(* the timeout (0: none given).  Getcmesymbols.TopstepXClient (tool) has   *)
(* no bar retrieval.  The service may also never answer; a call that does  *)
(* not return keeps its caller: no further call is made.                   *)
(***************************************************************************)
Bearer(token) == "Bearer " \o token

\* mutant: the request is built whether or not a token is held
SearchRequest_NoGuard(token, search_text) ==
    <<[url |-> "/Contract/search", authorization |-> Bearer(token),
       searchText |-> search_text, timeout |-> 30]>>

\* search_contracts: "if not self.session_token: return None", else the post
SearchRequest(token, search_text) ==
    IF token = "" THEN <<>>
    ELSE <<[url |-> "/Contract/search", authorization |-> Bearer(token),
            searchText |-> search_text, timeout |-> 30]>>

\* get_historical_data: the same guard; requests.post is given no timeout
BarsRequest(token, contract_id) ==
    IF token = "" THEN <<>>
    ELSE <<[url |-> "/History/retrieveBars", authorization |-> Bearer(token),
            contractId |-> contract_id, timeout |-> 0]>>

\* authenticate: no Authorization header; a timeout in the tool only
LoginRequest(im) ==
    <<[url |-> "/Auth/loginKey", authorization |-> "",
       timeout |-> IF im = "tool" THEN 30 ELSE 0]>>

SearchTexts == {"", "ES", "MGC"}

\* requests.post against a service that never answers: with a timeout the
\* call raises requests.Timeout when it expires, without one it never returns
Returns(request, answered) ==
    answered \/ request = <<>> \/ request[1].timeout > 0

\* what the client can be handed: any answer, or the timeout's exception
Delivered(outcomes, answered, timed_out) == IF answered THEN outcomes ELSE {timed_out}

InitClient ==
    /\ impl \in {"app", "tool"}
    /\ cpc = "off" /\ session_token = ""
    /\ contracts_method1 = <<>> /\ cat_idx = 1 /\ prefix_idx = 1
    /\ category_contracts = <<>> /\ contracts_by_category = <<>>
    /\ all_contracts = <<>>
    /\ prefix_failed = FALSE /\ filter_rejected = FALSE
    /\ df = NoFrame /\ indicators = NoIndicators /\ ipc = "off"
    /\ call = NoCall
    /\ MergeIdle /\ ClassifyIdle /\ ConfigIdle /\ AppIdle /\ DialogIdle /\ RefreshIdle
    /\ AutoIdle

clientFrame == <<impl, cpc, contracts_method1, cat_idx, prefix_idx, category_contracts,
                 contracts_by_category, all_contracts, prefix_failed, filter_rejected,
                 df, indicators, ipc, autoVars,
                 mergeVars, classifyVars, configVars, appVars, dialogVars, refreshVars>>

\* api.authenticate(): the token is set on success only
CallAuthenticate ==
    /\ call.returned
    /\ \E answered \in BOOLEAN :
         \E outcome \in Delivered(AuthOutcomes, answered, "exception") :
            LET request == LoginRequest(impl)
                returned == Returns(request, answered)
                r == authenticate(impl, outcome)
            IN  /\ session_token' = IF returned /\ r.ok THEN r.token ELSE session_token
                /\ call' = [fn |-> "authenticate", outcome |-> outcome,
                            request |-> request, raised |-> returned /\ r.raised,
                            result |-> r, answered |-> answered, returned |-> returned]
    /\ UNCHANGED clientFrame

\* api.search_contracts(search_text)
CallSearch ==
    /\ call.returned
    /\ \E search_text \in SearchTexts, answered \in BOOLEAN :
         \E outcome \in Delivered(SearchOutcomes, answered,
                                   [kind |-> "exception", contracts |-> <<>>]) :
            LET request == SearchRequest(session_token, search_text)
                returned == Returns(request, answered)
                r == search_contracts(impl, session_token, outcome)
            IN  call' = [fn |-> "search_contracts", outcome |-> outcome,
                         request |-> request, raised |-> returned /\ r.raised,
                         result |-> r, answered |-> answered, returned |-> returned]
    /\ UNCHANGED <<session_token, clientFrame>>

\* api.get_historical_data(contract_id)
CallBars ==
    /\ call.returned
    /\ impl = "app"
    /\ \E contract_id \in Ids, answered \in BOOLEAN :
         \E outcome \in Delivered(BarOutcomes("up"), answered,
                                   [kind |-> "exception", shape |-> "none", bars |-> NoBars]) :
            LET request == BarsRequest(session_token, contract_id)
                returned == Returns(request, answered)
                r == get_historical_data(session_token, outcome)
            IN  call' = [fn |-> "get_historical_data", outcome |-> outcome,
                         request |-> request, raised |-> returned /\ r.raised,
                         result |-> r, answered |-> answered, returned |-> returned]
    /\ UNCHANGED <<session_token, clientFrame>>

NextClient == CallAuthenticate \/ CallSearch \/ CallBars

SpecClient == InitClient /\ [][NextClient]_vars

\* C13: a search or a bar retrieval sends its request only while a token is
\* held, with that token as bearer credential; with no token it sends
\* nothing and returns None; the token changes only by a successful
\* authenticate.
C13_BearerToken ==
    /\ [](call.fn \in {"search_contracts", "get_historical_data"} =>
             IF session_token = ""
             THEN call.request = <<>> /\ call.result.none /\ ~call.raised
             ELSE /\ Len(call.request) = 1
                  /\ call.request[1].authorization = Bearer(session_token))
    /\ [][session_token' # session_token =>
             (call'.fn = "authenticate" /\ call'.outcome = "success")]_vars

\* a bar request went out with the token of the successful login, and a
\* search made before any login sent nothing
C13_Witness ==
    /\ call.fn = "get_historical_data"
    /\ session_token = "tok"
    /\ call.request # <<>>
    /\ call.request[1].authorization = "Bearer tok"

\* C20: a 200 answer in any of the three body shapes (bars under 'data',
\* under 'bars', or the bare array) makes get_historical_data return the bar
\* array without failing.
C20_ResponseShapes ==
    (call.fn = "get_historical_data" /\ session_token # "" /\ call.outcome.kind = "ok") =>
        (~call.raised /\ ~call.result.none /\ call.result.bars = call.outcome.bars)

\* C21: every request carries a timeout, and a call whose request the
\* service never answers returns, in failure (an exception, None, or False
\* from authenticate).
C21_CallsTimeOut ==
    /\ call.request # <<>> => call.request[1].timeout > 0
    /\ (call.fn # "none" /\ ~call.answered) =>
          /\ call.returned
          /\ \/ call.raised
             \/ (call.fn = "authenticate" /\ ~call.result.ok)
             \/ (call.fn # "authenticate" /\ call.result.none)

(***************************************************************************)
(* MarketAnalyzer.calculate_indicators.  A frame is the set of its column  *)
(* names as the service sent them and its rows; a row holds the values by  *)
(* canonical field (time, high, low, close).  Values are integers, NaN or  *)
(* an infinity; arithmetic is exact (float64 rounding is left out), and    *)
(* the sample series keep every quotient integral.                         *)
(***************************************************************************)
EwmSpan == 10          \* ewm(span=10, ...)
MinPeriods == 10       \* ewm(..., min_periods=10)
VolShift == 12         \* ema_hl.shift(12)
RocShift == 10         \* df['close'].shift(10)

Infinity == 2 ^ 30     \* float('inf'): above every value and threshold
Inf == [nan |-> FALSE, v |-> Infinity]
NegInf == [nan |-> FALSE, v |-> -Infinity]

\* the columns named name after df.rename(columns=actual_rename)
LabelCount(cols, name) == Cardinality({c \in cols : rename_map(c) = name})

\* two columns carry the same label after the renaming: sort_values('time')
\* raises for an ambiguous 'time', and df['high'] (df['low'], df['close'])
\* is then a two-column frame that cannot be assigned to one column
AmbiguousLabel(cols) ==
    \E name \in {"time", "high", "low", "close"} : LabelCount(cols, name) > 1

\* sort_values('time'), kind='quicksort' (the default), as the indexer it
\* applies: ascending by time; the order among equal times is whatever the
\* algorithm leaves, quicksort is not a stable sort
Ascending(times) == \A i \in 1..(Len(times) - 1) : times[i] <= times[i + 1]
StrictlyAscending(times) == \A i \in 1..(Len(times) - 1) : times[i] < times[i + 1]

ArgSorts(times) ==
    IF StrictlyAscending(times) THEN {[i \in 1..Len(times) |-> i]}
    ELSE {p \in Permutations(1..Len(times)) : Ascending([i \in 1..Len(times) |-> times[p[i]]])}

Take(rows, order) == [i \in 1..Len(order) |-> rows[order[i]]]

\* one step of ewm(adjust=False).mean(): alpha = 2 / (span + 1); pandas
\* leaves the average as it is when the observation equals it
EwmStep(weighted, cur) ==
    IF weighted = cur THEN weighted
    ELSE ((EwmSpan - 1) * weighted + 2 * cur) \div (EwmSpan + 1)

RECURSIVE EwmRaw(_)
EwmRaw(x) ==
    IF Len(x) <= 1 THEN x
    ELSE LET e == EwmRaw(SubSeq(x, 1, Len(x) - 1))
         IN  Append(e, EwmStep(e[Len(e)], x[Len(x)]))

\* mutant: min_periods is not applied
EwmMean_NoMinPeriods(x) ==
    LET e == EwmRaw(x)
    IN  [i \in 1..Len(x) |-> Num(e[i])]

\* ewm(span=10, adjust=False, min_periods=10).mean(): NaN until min_periods
\* observations are in
EwmMean(x) ==
    LET e == EwmRaw(x)
    IN  [i \in 1..Len(x) |-> IF i < MinPeriods THEN NaN ELSE Num(e[i])]

\* mutant: the series is moved one position too few
Shift_OneShort(col, k) ==
    [i \in 1..Len(col) |-> IF i <= k - 1 THEN NaN ELSE col[i - (k - 1)]]

\* series.shift(k)
Shift(col, k) == [i \in 1..Len(col) |-> IF i <= k THEN NaN ELSE col[i - k]]

\* mutant: the ratio itself, the base is not subtracted
PctChange_Ratio(cur, base) ==
    IF cur.nan \/ base.nan THEN NaN
    ELSE IF base.v = 0
         THEN (IF cur.v = 0 THEN NaN ELSE IF cur.v > 0 THEN Inf ELSE NegInf)
    ELSE Num((cur.v * 100) \div base.v)

\* ((cur - base) / base) * 100 in float arithmetic: x/0 is +-inf, 0/0 is NaN
PctChange(cur, base) ==
    IF cur.nan \/ base.nan THEN NaN
    ELSE IF base.v = 0
         THEN (IF cur.v = 0 THEN NaN ELSE IF cur.v > 0 THEN Inf ELSE NegInf)
    ELSE Num(((cur.v - base.v) * 100) \div base.v)

PctColumn(col, k) ==
    LET shifted == Shift(col, k)
    IN  [i \in 1..Len(col) |-> PctChange(col[i], shifted[i])]

Raised == [NoIndicators EXCEPT !.raised = TRUE]

\* calculate_indicators(df): the outcomes the call can have
calculate_indicators(frame) ==
    IF SchemaError(frame.columns) \/ AmbiguousLabel(frame.columns) THEN {Raised}
    ELSE {LET rows == Take(frame.rows, order)
              hl_range == [i \in 1..Len(rows) |-> rows[i].high - rows[i].low]
              ema_hl == EwmMean(hl_range)
              close == [i \in 1..Len(rows) |-> Num(rows[i].close)]
          IN  [raised |-> FALSE, order |-> order, rows |-> rows, ema_hl |-> ema_hl,
               chaikin_vol |-> PctColumn(ema_hl, VolShift),
               roc |-> PctColumn(close, RocShift)]
            : order \in ArgSorts([i \in 1..Len(frame.rows) |-> frame.rows[i].time])}

(***************************************************************************)
(* SpecIndicators: calculate_indicators on sample frames, then the latest  *)
(* row classified as update_thread does.  The frames are of three kinds:   *)
(*   series   n bars in time order with every column present; the first    *)
(*            n-1 bars share one high-low range and one close, the last    *)
(*            bar has its own;                                             *)
(*   schema   two bars under every set of column names;                    *)
(*   unsorted up to MaxSortBars bars with times in any order, repeated     *)
(*            times included.                                              *)
(***************************************************************************)
MaxBars == 23          \* longest sample series
MaxSortBars == 3       \* longest unsorted sample

FullColumns == {"t", "o", "h", "l", "c", "v"}
RawColumns == {"t", "time", "timestamp", "h", "high", "l", "c", "o"}
RangeValues == {0, 22, 55, 143}
CloseValues == {0, 100, 105}

SeriesRows(n, r0, rlast, c0, clast) ==
    [i \in 1..n |-> [time |-> i, low |-> 0,
                     high |-> IF i < n THEN r0 ELSE rlast,
                     close |-> IF i < n THEN c0 ELSE clast]]

\* every division the computation makes on these rows leaves no remainder
ExactRows(rows) ==
    LET n == Len(rows)
        hl == [i \in 1..n |-> rows[i].high - rows[i].low]
        e == EwmRaw(hl)
        ExactPct(cur, base) == base = 0 \/ ((cur - base) * 100) % base = 0
    IN  /\ \A i \in 2..n :
              hl[i] = e[i - 1] \/ ((EwmSpan - 1) * e[i - 1] + 2 * hl[i]) % (EwmSpan + 1) = 0
        /\ \A i \in (VolShift + 1)..n : ExactPct(e[i], e[i - VolShift])
        /\ \A i \in (RocShift + 1)..n : ExactPct(rows[i].close, rows[i - RocShift].close)

SeriesFrames ==
    {f \in {[columns |-> FullColumns, rows |-> SeriesRows(n, r0, rlast, c0, clast)] :
                n \in 1..MaxBars, r0 \in RangeValues, rlast \in RangeValues,
                c0 \in CloseValues, clast \in CloseValues} :
        ExactRows(f.rows)}

SchemaFrames ==
    {[columns |-> cols, rows |-> SeriesRows(2, 22, 22, 100, 100)] : cols \in SUBSET RawColumns}

\* bar i closes at i, so that bars with equal times can be told apart
UnsortedFrames ==
    {[columns |-> FullColumns,
      rows |-> [i \in 1..Len(times) |-> [time |-> times[i], low |-> 0, high |-> 22, close |-> i]]] :
        times \in SeqsUpTo({1, 2}, MaxSortBars) \ {<<>>}}

SampleFrames == SeriesFrames \cup SchemaFrames \cup UnsortedFrames

InitIndicators ==
    /\ df \in SampleFrames
    /\ indicators = NoIndicators
    /\ ipc = "ready"
    /\ call = NoCall
    /\ MergeIdle /\ CatalogIdle /\ ClassifyIdle /\ ConfigIdle /\ AppIdle /\ DialogIdle
    /\ RefreshIdle /\ AutoIdle

\* df = MarketAnalyzer.calculate_indicators(df, ...)
Calculate ==
    /\ ipc = "ready"
    /\ indicators' \in calculate_indicators(df)
    /\ ipc' = IF indicators'.raised THEN "raised" ELSE "calculated"
    /\ UNCHANGED <<df, call, autoVars, mergeVars, catalogVars, classifyVars, configVars, appVars,
                   dialogVars, refreshVars>>

\* latest = df.iloc[-1]; state, emoji = determine_market_state(chaikin_vol, roc)
ClassifyLatest ==
    /\ ipc = "calculated"
    /\ LET n == Len(indicators.rows)
       IN  /\ chaikin_vol' = indicators.chaikin_vol[n]
           /\ roc' = indicators.roc[n]
           /\ market_state' = determine_market_state(indicators.chaikin_vol[n],
                                                     indicators.roc[n])
    /\ ipc' = "classified"
    /\ UNCHANGED <<df, indicators, call, clpc, autoVars, mergeVars, catalogVars, configVars, appVars,
                   dialogVars, refreshVars>>

NextIndicators == Calculate \/ ClassifyLatest

SpecIndicators == InitIndicators /\ [][NextIndicators]_vars

(***************************************************************************)
(* Claims on the indicators (SpecIndicators).                              *)
(***************************************************************************)
Calculated == ipc \in {"calculated", "classified"}
AllNaN(col) == \A i \in 1..Len(col) : col[i].nan

PositiveBars(rows) ==
    \A i \in 1..Len(rows) : rows[i].high - rows[i].low > 0 /\ rows[i].close > 0

\* C15: an instrument with 15 bars (positive ranges and closes) gets a row
\* whose chaikin_vol and roc are both defined at the latest bar and whose
\* state is not 'insufficient data'.
C15_FifteenBars ==
    (ipc = "classified" /\ Len(indicators.rows) = 15 /\ PositiveBars(indicators.rows)) =>
        /\ ~chaikin_vol.nan /\ ~roc.nan
        /\ market_state[1] # "insufficient data"

\* C16: wherever the denominator is zero (ema_hl twelve bars back, close
\* ten bars back) the indicator is undefined, and a latest bar with a zero
\* denominator is classified 'insufficient data'.
C16_ZeroDenominator ==
    Calculated =>
        LET n == Len(indicators.rows)
            ZeroVolBase(i) == i > VolShift /\ indicators.ema_hl[i - VolShift] = Num(0)
            ZeroRocBase(i) == i > RocShift /\ indicators.rows[i - RocShift].close = 0
        IN  /\ \A i \in 1..n : ZeroVolBase(i) => indicators.chaikin_vol[i].nan
            /\ \A i \in 1..n : ZeroRocBase(i) => indicators.roc[i].nan
            /\ (ipc = "classified" /\ (ZeroVolBase(n) \/ ZeroRocBase(n))) =>
                    market_state[1] = "insufficient data"

ConstantBars(rows) ==
    \A i, j \in 1..Len(rows) :
        /\ rows[i].high - rows[i].low = rows[j].high - rows[j].low
        /\ rows[i].close = rows[j].close

\* C17: on a series of constant high-low range and constant close,
\* chaikin_vol and roc are 0 wherever they are defined.
C17_ConstantSeries ==
    (Calculated /\ ConstantBars(indicators.rows)) =>
        \A i \in 1..Len(indicators.rows) :
            /\ ~indicators.chaikin_vol[i].nan => indicators.chaikin_vol[i] = Num(0)
            /\ ~indicators.roc[i].nan => indicators.roc[i] = Num(0)

\* a constant series long enough for both indicators gave 0 and 0
C17_Witness ==
    /\ Calculated /\ ConstantBars(indicators.rows)
    /\ Len(indicators.rows) >= MinPeriods + VolShift
    /\ indicators.rows[1].high - indicators.rows[1].low > 0
    /\ indicators.chaikin_vol[Len(indicators.rows)] = Num(0)
    /\ indicators.roc[Len(indicators.rows)] = Num(0)

\* C18: calculate_indicators raises exactly when, after the renaming, there
\* is no time column or one of high, low, close is missing.
C18_SchemaErrorExactly ==
    ipc # "ready" => (indicators.raised <=> SchemaError(df.columns))

\* C19: the rows come out in non-decreasing time order, and rows of equal
\* time keep the order they had in the input.
C19_StableSort ==
    Calculated =>
        /\ Ascending([i \in 1..Len(indicators.rows) |-> indicators.rows[i].time])
        /\ \A i, j \in 1..Len(indicators.rows) :
              (i < j /\ indicators.rows[i].time = indicators.rows[j].time) =>
                  indicators.order[i] < indicators.order[j]

\* C26: ema_hl is undefined on the first 9 bars and defined from the 10th;
\* chaikin_vol is undefined on the first 21 bars and defined from the 22nd
\* (index 21) wherever ema_hl twelve bars back is not zero; roc is undefined
\* on the first 10 bars and defined from the 11th (index 10) wherever the
\* close ten bars back is not zero.
C26_DefinedFrom ==
    Calculated =>
        \A i \in 1..Len(indicators.rows) :
            /\ indicators.ema_hl[i].nan <=> i < MinPeriods
            /\ i < MinPeriods + VolShift => indicators.chaikin_vol[i].nan
            /\ (i >= MinPeriods + VolShift /\ indicators.ema_hl[i - VolShift] # Num(0)) =>
                    ~indicators.chaikin_vol[i].nan
            /\ i <= RocShift => indicators.roc[i].nan
            /\ (i > RocShift /\ indicators.rows[i - RocShift].close # 0) =>
                    ~indicators.roc[i].nan

\* a series of 23 bars: chaikin_vol undefined at bar 21 and defined at bar
\* 22, roc undefined at bar 10 and defined at bar 11
C26_Witness ==
    /\ Calculated /\ Len(indicators.rows) = 23 /\ PositiveBars(indicators.rows)
    /\ indicators.chaikin_vol[21].nan /\ ~indicators.chaikin_vol[22].nan
    /\ indicators.roc[10].nan /\ ~indicators.roc[11].nan
    /\ indicators.ema_hl[9].nan /\ ~indicators.ema_hl[10].nan

====
